---- MODULE Spec2Model ----
(***************************************************************************)
(* Model of the Ory Cloud CLI authentication handler (package cloudx):     *)
(* the config file (WriteConfig / readConfig), SignOut, EnsureContext,     *)
(* Authenticate, and the signup / signin flow state machines with their    *)
(* validation-retry loops and the AAL2 step-up recursion.                  *)
(*                                                                         *)
(* One run of a top-level operation is a sequence of steps.  A step is the *)
(* code executed between two suspension points (a terminal prompt or an    *)
(* identity-API request); the answer of the user or of the API is the      *)
(* input of the step that follows it.                                      *)
(***************************************************************************)
EXTENDS Integers, Sequences, FiniteSets, TLC

\* ------------------------------------------------------------------ bounds

\* Replacement flows the identity API may answer within one signup/signin call.
MaxRetries == 2
\* session_aal2_required answers the identity API may give within one run.
MaxStepUps == 1

\* ------------------------------------------------------------------ values

version == "v0alpha0"

NilUUID == "00000000-0000-0000-0000-000000000000"

\* Session tokens the identity API hands out ("" is the empty string).
Tokens == {"tok1", "tok2"}
\* A login/registration response whose session_token pointer is nil.
NilToken == "<nil>"
\* Values of the "email" trait; "" is what gjson yields for a missing field.
Emails == {"", "a@example.com"}
\* Identity ids as the API sends them: a UUID string or a malformed one.
IdentityIds == {"6ba7b810-9dad-11d1-80b4-00c04fd430c8", "not-a-uuid"}
FlowIds == {"f1", "f2"}
\* Groups a flow's UI nodes may be tagged with.
NodeGroups == {"password", "totp", "lookup_secret"}

\* AuthContext / AuthIdentity
AuthContext(v, t, p, id, email) ==
    [Version |-> v, SessionToken |-> t, SelectedProject |-> p,
     IdentityTraits |-> [ID |-> id, Email |-> email]]

\* new(AuthContext): the Go zero value.
ZeroContext == AuthContext("", "", NilUUID, NilUUID, "")

\* ------------------------------------------------------------ config file

\* A Go string whose bytes are not valid UTF-8 (the single byte 0xff), and
\* the replacement rune U+FFFD that encoding/json writes in its place.
InvalidUTF8 == "\\xff"
ReplacementRune == "\\ufffd"

\* encoding/json on a string value: coerced to valid UTF-8.
JSONString(s) == IF s = InvalidUTF8 THEN ReplacementRune ELSE s

\* json.Encoder.Encode(c): the document's keys are the json tags of
\* AuthContext; AuthIdentity.ID carries no tag and is written as "ID".
\* The uuid.UUID fields are written in their canonical text form.
Encode(c) ==
    [version |-> JSONString(c.Version),
     session_token |-> JSONString(c.SessionToken),
     selected_project |-> c.SelectedProject,
     session_identity_traits |->
         [ID |-> c.IdentityTraits.ID, email |-> JSONString(c.IdentityTraits.Email)]]

\* json.Decoder.Decode(&c)
Decode_noIdentity(d) ==
    AuthContext(d.version, d.session_token, d.selected_project, NilUUID, "")
Decode(d) ==
    AuthContext(d.version, d.session_token, d.selected_project,
                d.session_identity_traits.ID, d.session_identity_traits.email)

\* The document of an absent or unreadable file (a placeholder, never decoded).
NoData == Encode(ZeroContext)

\* How a write can end: the file is opened and encoded; OpenFile fails (the
\* file is untouched); OpenFile truncates the file and Encode then fails.
WriteOutcomes == {"ok", "open_fails", "encode_fails"}
\* How os.Open can end for reasons other than the file being absent.
ReadOutcomes == {"ok", "open_fails"}

\* WriteConfig stamps the version on the context it is handed.
Stamp_keep(c) == c
Stamp(c) == [c EXCEPT !.Version = version]

\* WriteConfig(c) on file <<fs, fd>> with I/O outcome w:
\* the error returned and the file afterwards.
WriteConfig_swallow(c, w, fs, fd) ==
    CASE w = "open_fails" -> [err |-> "", fs |-> fs, fd |-> fd]
      [] w = "encode_fails" -> [err |-> "", fs |-> "corrupt", fd |-> NoData]
      [] OTHER -> [err |-> "", fs |-> "present", fd |-> Encode(Stamp(c))]
WriteConfig(c, w, fs, fd) ==
    CASE w = "open_fails" ->
            [err |-> "unable to open file for writing", fs |-> fs, fd |-> fd]
      [] w = "encode_fails" ->
            [err |-> "unable to write configuration", fs |-> "corrupt", fd |-> NoData]
      [] OTHER ->
            [err |-> "", fs |-> "present", fd |-> Encode(Stamp(c))]

\* readConfig() on file <<fs, fd>> with I/O outcome r: the context and error.
\* nil is TRUE when the returned pointer is nil.
readConfig_generic(r, fs, fd) ==
    CASE fs = "absent" \/ r = "open_fails" ->
            [c |-> ZeroContext, nil |-> TRUE, err |-> "unable to open ory config file"]
      [] fs = "corrupt" ->
            [c |-> ZeroContext, nil |-> TRUE, err |-> "unable to JSON decode"]
      [] OTHER ->
            [c |-> Decode(fd), nil |-> FALSE, err |-> ""]
readConfig(r, fs, fd) ==
    CASE fs = "absent" ->
            [c |-> ZeroContext, nil |-> FALSE, err |-> "ErrNoConfig"]
      [] r = "open_fails" ->
            [c |-> ZeroContext, nil |-> TRUE, err |-> "unable to open ory config file"]
      [] fs = "corrupt" ->
            [c |-> ZeroContext, nil |-> TRUE, err |-> "unable to JSON decode"]
      [] OTHER ->
            [c |-> Decode(fd), nil |-> FALSE, err |-> ""]

\* ------------------------------------------------------- identity service

\* A flow as the CLI sees it: its identifier and the groups of its UI nodes.
Flows == [id : FlowIds, groups : SUBSET NodeGroups]
NoFlow == [id |-> "", groups |-> {}]

\* A session as the CLI reads it: the identity id and the "email" trait.
Sessions == [id : IdentityIds, email : Emails]

\* error.id values of a failed session exchange (and "" for a failure that
\* is not a GenericOpenAPIError, such as a transport error).
ErrorIds == {"session_aal2_required", "session_inactive", ""}

\* What ToSession can answer for a token: the service knows no session for
\* the empty token, so it neither resolves it nor asks to step it up.
ToSessionErrors(token) ==
    IF token = "" THEN ErrorIds \ {"session_aal2_required"} ELSE ErrorIds
ToSessionResolves(token) == token # ""

\* ------------------------------------------------------------ pure helpers

\* stringsx.Coalesce(a, b): the first non-empty string.
Coalesce(a, b) == IF a # "" THEN a ELSE b

\* The name of the default config file.
fileName == ".ory-cloud.json"

\* getConfigPath with the --cloud-config flag, the value of
\* ORY_CLOUD_CONFIG_PATH and the value of $HOME ("" when unset, which makes
\* os.UserHomeDir fail): the path and the error.
getConfigPath(flag, env, home) ==
    IF home = ""
    THEN [path |-> "", err |-> "unable to guess your home directory"]
    ELSE [path |-> Coalesce(env, Coalesce(flag, home \o "/" \o fileName)),
          err |-> ""]

\* uuid.FromStringOrNil
FromStringOrNil(s) == IF s = "not-a-uuid" THEN NilUUID ELSE s

\* signin: the initiation request; a prior token adds the token and aal2.
InitRequest(token) ==
    IF token # "" THEN [token |-> token, aal |-> "aal2"]
    ELSE [token |-> "", aal |-> ""]

\* signin: method negotiation.  form is the type of the body handed to
\* renderForm: it starts as the password body and only TOTP replaces it.
Negotiate_lookupFirst(token, groups) ==
    IF token = "" THEN [err |-> "", method |-> "password", form |-> "password"]
    ELSE IF "lookup_secret" \in groups
         THEN [err |-> "", method |-> "lookup_secret", form |-> "password"]
    ELSE IF "totp" \in groups
         THEN [err |-> "", method |-> "totp", form |-> "totp"]
    ELSE [err |-> "only TOTP and lookup secrets are supported",
          method |-> "password", form |-> "password"]
Negotiate(token, groups) ==
    IF token = "" THEN [err |-> "", method |-> "password", form |-> "password"]
    ELSE LET foundTOTP == "totp" \in groups
             foundLookup == "lookup_secret" \in groups
         IN  IF ~foundLookup /\ ~foundTOTP
             THEN [err |-> "only TOTP and lookup secrets are supported",
                   method |-> "password", form |-> "password"]
             ELSE IF foundTOTP
                  THEN [err |-> "", method |-> "totp", form |-> "totp"]
                  ELSE [err |-> "", method |-> "lookup_secret", form |-> "password"]

\* signin: the type switch that fills SubmitSelfServiceLoginFlowBody; the
\* result is the set of variants of the body that are populated.
Body(form) ==
    CASE form = "totp" -> {"totp"}
      [] form = "password" -> {"password"}
      [] OTHER -> {"panic"}

\* signup / signin: a validation error carrying flow m replaces the flow.
AdoptFlow_keep(old, m) == old
AdoptFlow(old, m) == m

\* signin: is a failed session exchange the request to step up?
IsStepUp_any(errorId) == TRUE
IsStepUp(errorId) == errorId = "session_aal2_required"

\* sessionToContext
sessionToContext_firstToken(session, token) ==
    AuthContext(version, "tok1", NilUUID, FromStringOrNil(session.id), session.email)
sessionToContext(session, token) ==
    AuthContext(version, token, NilUUID, FromStringOrNil(session.id), session.email)

\* A returned (context, error) pair; nil marks a nil context pointer.
Result(c) == [err |-> "", nil |-> FALSE, ctx |-> c]
NilResult == [err |-> "", nil |-> TRUE, ctx |-> ZeroContext]
Failure(e) == [err |-> e, nil |-> TRUE, ctx |-> ZeroContext]

\* ------------------------------------------------------------------ state

VARIABLES
    fileState,     \* the config file: "absent", "present" or "corrupt"
    fileData,      \* its JSON document when present
    noConfirm,     \* Auth.noConfirm, the --yes flag of the running command
    cmd,           \* the top-level operation running (or last run)
    frame,         \* who called Authenticate: "top", "declined", "nosession"
    pc,            \* where the run is suspended
    ret,           \* what the top-level operation returned
    held,          \* the context read from the config (c / ac)
    sessionToken,  \* signin's sessionToken
    flow,          \* the current flow of signup / signin
    hadSession,    \* the config file held a session token when the run started
    prompts,       \* confirmation questions asked in this run, in order
    answers,       \* the user's answers to them, in order
    rendered,      \* renderForm calls of this run
    apiCalls,      \* identity-API requests issued in this run
    writes,        \* WriteConfig calls of this run
    initReqs,      \* login-flow initiation requests of this run, in order
    inits,         \* flow initiation requests of this run
    subs,          \* submissions of the current signup / signin call
    repls,         \* replacement flows received by the current call
    stepUps,       \* re-entries into signin in this run
    exchanged,     \* tokens ToSession resolved in this run
    exchangeErr,   \* error.id of the last ToSession answer ("none": no error)
    lastWrite,     \* I/O outcome of the last WriteConfig ("none": no call)
    fileChanged,   \* a write of this run changed the config file
    input,         \* the arguments of a function applied on its own
    output         \* what that function returned

fileVars == <<fileState, fileData>>
fnVars == <<input, output>>
\* No function is being applied on its own.
NoInput == [kind |-> "none"]
NoOutput == [kind |-> "none"]
\* The locals of the running signup / signin call and what it has done.
callVars == <<sessionToken, flow, subs, repls>>
flowVars == <<callVars, rendered, initReqs, inits, stepUps, exchangeErr>>
vars == <<fileState, fileData, noConfirm, cmd, frame, pc, ret, held,
          sessionToken, flow, hadSession, prompts, answers, rendered, apiCalls,
          writes, initReqs, inits, subs, repls, stepUps, exchanged,
          exchangeErr, lastWrite, fileChanged, input, output>>

\* Config files a run may find: none, a signed-out one, a signed-in one.
InitFiles ==
    { <<"absent", NoData>>,
      <<"present", Encode(Stamp(ZeroContext))>>,
      <<"present", Encode(AuthContext(version, "tok1", NilUUID,
                          "6ba7b810-9dad-11d1-80b4-00c04fd430c8", "a@example.com"))>> }

\* No command has run yet.
InitHandler ==
    /\ noConfirm = FALSE
    /\ cmd = "none"
    /\ frame = "top"
    /\ pc = "idle"
    /\ ret = NilResult
    /\ held = ZeroContext
    /\ sessionToken = ""
    /\ flow = NoFlow
    /\ prompts = <<>>
    /\ rendered = 0
    /\ apiCalls = 0
    /\ writes = 0
    /\ initReqs = <<>>
    /\ inits = 0
    /\ subs = <<>>
    /\ repls = <<>>
    /\ stepUps = 0
    /\ exchanged = {}
    /\ exchangeErr = "none"
    /\ lastWrite = "none"
    /\ fileChanged = FALSE
    /\ hadSession = FALSE
    /\ answers = <<>>

Init ==
    /\ \E f \in InitFiles :
        /\ fileState = f[1]
        /\ fileData = f[2]
    /\ InitHandler
    /\ input = NoInput
    /\ output = NoOutput

\* NewHandler: a command starts with its own --yes flag and nothing in hand.
NewHandler(name, yes) ==
    /\ pc \in {"idle", "done"}
    /\ UNCHANGED fnVars
    /\ cmd' = name
    /\ noConfirm' = yes
    /\ hadSession' = (fileState = "present" /\ Decode(fileData).SessionToken # "")
    /\ exchanged' = {}
    /\ exchangeErr' = "none"
    /\ apiCalls' = 0
    /\ sessionToken' = ""
    /\ flow' = NoFlow
    /\ rendered' = 0
    /\ initReqs' = <<>>
    /\ inits' = 0
    /\ subs' = <<>>
    /\ repls' = <<>>
    /\ stepUps' = 0

\* Whether the config file changes, or has changed in this run, when a
\* write leaves it as <<fs, fd>>.
Changed(fs, fd) == fileChanged \/ <<fs, fd>> # <<fileState, fileData>>

\* The top-level operation returns r; the frames of signup / signin are gone.
Return(r) ==
    /\ pc' = "done"
    /\ ret' = r
    /\ sessionToken' = ""
    /\ flow' = NoFlow
    /\ subs' = <<>>
    /\ repls' = <<>>

\* The run waits at p for the user or the identity API.
Pending(p) ==
    /\ pc' = p
    /\ ret' = NilResult

\* What EnsureContext makes of Authenticate's result a.  In the no-session
\* branch it reads c.SessionToken afterwards, which panics on a nil context.
AfterAuthenticate(fr, a) ==
    IF a.err # "" THEN Failure(a.err)
    ELSE IF fr = "nosession" /\ a.nil THEN Failure("panic: nil pointer dereference")
    ELSE a

\* EnsureContext: !h.noConfirm && !AskForConfirmation(...)
Declined_inverted(yes, answer) == ~yes /\ answer
Declined(yes, answer) == ~yes /\ ~answer

\* SignOut with I/O outcome w on file <<fs, fd>>.
SignOut_noWrite(w, fs, fd) == [err |-> "", fs |-> fs, fd |-> fd]
SignOut(w, fs, fd) == WriteConfig(ZeroContext, w, fs, fd)

\* Authenticate, from newConsoleClient to the account question.
\* fr: the caller; pr: the prompts asked so far.
AuthenticateConnect(fr, pr) ==
    \E clientOK \in BOOLEAN :
        IF ~clientOK
        THEN /\ Return(AfterAuthenticate(fr, Failure("newConsoleClient")))
             /\ prompts' = pr
        ELSE /\ Pending("auth_ask")
             /\ prompts' = Append(pr, "have_account")

\* Authenticate, from its first line to its first prompt, with flag yes,
\* on file <<fs, fd>>.
AuthenticateBegin(fr, yes, fs, fd, pr) ==
    /\ frame' = fr
    /\ IF yes
       THEN /\ Return(AfterAuthenticate(fr, Failure("can not sign in or sign up when flag --yes is set.")))
            /\ prompts' = pr
            /\ held' = held
       ELSE \E r \in ReadOutcomes :
            LET rc == readConfig(r, fs, fd) IN
            IF rc.err = "ErrNoConfig"
            THEN /\ Return(AfterAuthenticate(fr, NilResult))
                 /\ prompts' = pr
                 /\ held' = held
            ELSE IF rc.err # ""
            THEN /\ Return(AfterAuthenticate(fr, Failure(rc.err)))
                 /\ prompts' = pr
                 /\ held' = held
            ELSE IF rc.c.SessionToken # ""
            THEN /\ Pending("auth_confirm")
                 /\ prompts' = Append(pr, "another_account")
                 /\ held' = rc.c
            ELSE /\ held' = rc.c
                 /\ AuthenticateConnect(fr, pr)

\* Authenticate, after signin / signup returned context ac: persist and return.
AuthenticateFinish_skipWrite(ac) ==
    /\ UNCHANGED <<fileState, fileData, writes, lastWrite, fileChanged>>
    /\ Return(AfterAuthenticate(frame, Result(Stamp(ac))))
AuthenticateFinish(ac) ==
    \E w \in WriteOutcomes :
        LET wr == WriteConfig(ac, w, fileState, fileData) IN
        /\ fileState' = wr.fs
        /\ fileData' = wr.fd
        /\ writes' = writes + 1
        /\ lastWrite' = w
        /\ fileChanged' = Changed(wr.fs, wr.fd)
        /\ Return(AfterAuthenticate(frame,
                    IF wr.err # "" THEN Failure(wr.err) ELSE Result(Stamp(ac))))

\* signin(c, token): the initiation request is issued.
SigninEnter(token) ==
    /\ sessionToken' = token
    /\ initReqs' = Append(initReqs, InitRequest(token))
    /\ inits' = inits + 1
    /\ subs' = <<>>
    /\ repls' = <<>>
    /\ apiCalls' = apiCalls + 1
    /\ Pending("signin_init")

\* --------------------------------------------------- top-level operations

\* EnsureContext, up to its return or its first prompt.
EnsureContext ==
    \E yes \in BOOLEAN, r \in ReadOutcomes :
        /\ NewHandler("EnsureContext", yes)
        /\ writes' = 0
        /\ lastWrite' = "none"
        /\ fileChanged' = FALSE
        /\ answers' = <<>>
        /\ UNCHANGED fileVars
        /\ LET rc == readConfig(r, fileState, fileData) IN
           IF rc.err # ""
           THEN /\ Return(IF rc.err = "ErrNoConfig" THEN NilResult ELSE Failure(rc.err))
                /\ prompts' = <<>>
                /\ held' = ZeroContext
                /\ frame' = "top"
           ELSE IF rc.c.SessionToken # ""
           THEN /\ held' = rc.c
                /\ frame' = "top"
                /\ IF ~yes
                   THEN /\ Pending("ensure_confirm")
                        /\ prompts' = <<"continue_as">>
                   ELSE /\ Return(Result(rc.c))
                        /\ prompts' = <<>>
           ELSE AuthenticateBegin("nosession", yes, fileState, fileData, <<>>)

\* EnsureContext: the user answers "continue as that user?".
EnsureConfirm ==
    /\ pc = "ensure_confirm"
    /\ UNCHANGED <<fnVars, noConfirm, cmd, hadSession, flowVars, apiCalls, exchanged>>
    /\ \E continue \in BOOLEAN :
        /\ answers' = Append(answers, continue)
        /\ IF ~Declined(noConfirm, continue)
           THEN /\ Return(Result(held))
                /\ UNCHANGED <<fileVars, writes, lastWrite, fileChanged, prompts, held, frame>>
           ELSE \E w \in WriteOutcomes :
             LET so == SignOut(w, fileState, fileData) IN
             /\ fileState' = so.fs
             /\ fileData' = so.fd
             /\ writes' = writes + 1
             /\ lastWrite' = w
             /\ fileChanged' = Changed(so.fs, so.fd)
             /\ IF so.err # ""
                THEN /\ Return(Failure(so.err))
                     /\ UNCHANGED <<prompts, held, frame>>
                ELSE AuthenticateBegin("declined", noConfirm, so.fs, so.fd, prompts)

\* Authenticate as a command of its own, up to its return or first prompt.
Authenticate ==
    \E yes \in BOOLEAN :
        /\ NewHandler("Authenticate", yes)
        /\ writes' = 0
        /\ lastWrite' = "none"
        /\ fileChanged' = FALSE
        /\ answers' = <<>>
        /\ UNCHANGED fileVars
        /\ AuthenticateBegin("top", yes, fileState, fileData, <<>>)

\* Authenticate: the user answers "authenticate with another account?".
AuthConfirm ==
    /\ pc = "auth_confirm"
    /\ UNCHANGED <<fnVars, noConfirm, cmd, hadSession, flowVars, apiCalls, exchanged, frame>>
    /\ \E another \in BOOLEAN :
        /\ answers' = Append(answers, another)
        /\ IF ~another
           THEN /\ Return(AfterAuthenticate(frame, Result(held)))
                /\ UNCHANGED <<fileVars, writes, lastWrite, fileChanged, prompts, held>>
           ELSE \E w \in WriteOutcomes :
             LET so == SignOut(w, fileState, fileData) IN
             /\ fileState' = so.fs
             /\ fileData' = so.fd
             /\ writes' = writes + 1
             /\ lastWrite' = w
             /\ fileChanged' = Changed(so.fs, so.fd)
             \* ac is not read again before signin / signup overwrites it
             /\ held' = ZeroContext
             /\ IF so.err # ""
                THEN /\ Return(AfterAuthenticate(frame, Failure(so.err)))
                     /\ UNCHANGED prompts
                ELSE AuthenticateConnect(frame, prompts)

\* SignOut as a command of its own.
SignOutCmd ==
    \E yes \in BOOLEAN, w \in WriteOutcomes :
        LET so == SignOut(w, fileState, fileData) IN
        /\ NewHandler("SignOut", yes)
        /\ fileState' = so.fs
        /\ fileData' = so.fd
        /\ writes' = 1
        /\ lastWrite' = w
        /\ fileChanged' = (<<so.fs, so.fd>> # <<fileState, fileData>>)
        /\ prompts' = <<>>
        /\ answers' = <<>>
        /\ held' = ZeroContext
        /\ frame' = "top"
        /\ Return(IF so.err # "" THEN Failure(so.err) ELSE NilResult)

\* ------------------------------------------------------ signup and signin

\* What a submission carries.
Submission(f, m, b, t) == [flow |-> f.id, method |-> m, body |-> b, token |-> t]

\* Authenticate: the user answers "do you already have an account?";
\* signin(c, "") or signup(c) issues its initiation request.
AuthAsk ==
    /\ pc = "auth_ask"
    /\ UNCHANGED <<fnVars, fileVars, noConfirm, cmd, hadSession, frame, held, prompts,
                   writes, lastWrite, fileChanged, exchangeErr,
                   exchanged, flow, rendered, stepUps>>
    /\ \E signIn \in BOOLEAN :
        /\ answers' = Append(answers, signIn)
        /\ IF signIn
           THEN SigninEnter("")
           ELSE /\ inits' = inits + 1
                /\ subs' = <<>>
                /\ repls' = <<>>
                /\ apiCalls' = apiCalls + 1
                /\ Pending("signup_init")
                /\ UNCHANGED <<sessionToken, initReqs>>

\* signup: the registration flow arrives, or its initiation fails.
SignupInit ==
    /\ pc = "signup_init"
    /\ UNCHANGED <<fnVars, fileVars, noConfirm, cmd, hadSession, frame, held, prompts, answers,
                   writes, lastWrite, fileChanged, exchangeErr,
                   exchanged, rendered, initReqs, inits, stepUps, apiCalls>>
    /\ \/ Return(AfterAuthenticate(frame, Failure("initialize registration flow")))
       \/ \E f \in Flows :
            /\ flow' = f
            /\ Pending("signup_form")
            /\ UNCHANGED <<sessionToken, subs, repls>>

\* signup: retryRegistration; render the password form and submit it.
SignupForm ==
    /\ pc = "signup_form"
    /\ UNCHANGED <<fnVars, fileVars, noConfirm, cmd, hadSession, frame, held, prompts, answers,
                   writes, lastWrite, fileChanged, exchangeErr,
                   exchanged, initReqs, inits, stepUps>>
    /\ \E renderOK \in BOOLEAN :
        IF ~renderOK
        THEN /\ Return(AfterAuthenticate(frame, Failure("renderForm")))
             /\ UNCHANGED <<rendered, apiCalls>>
        ELSE /\ rendered' = rendered + 1
             /\ subs' = Append(subs, Submission(flow, "password", {"password"}, ""))
             /\ apiCalls' = apiCalls + 1
             /\ Pending("signup_submit")
             /\ UNCHANGED <<sessionToken, flow, repls>>

\* signup: the answer to the submission; on success ToSession is called.
SignupSubmit ==
    /\ pc = "signup_submit"
    /\ UNCHANGED <<fnVars, fileVars, noConfirm, cmd, hadSession, frame, held, prompts, answers,
                   writes, lastWrite, fileChanged, exchangeErr,
                   exchanged, rendered, initReqs, inits, stepUps>>
    /\ \/ \E m \in Flows :
            /\ Len(repls) < MaxRetries
            /\ flow' = AdoptFlow(flow, m)
            /\ repls' = Append(repls, m.id)
            /\ Pending("signup_form")
            /\ UNCHANGED <<sessionToken, subs, apiCalls>>
       \/ /\ Return(AfterAuthenticate(frame, Failure("submit registration flow")))
          /\ UNCHANGED apiCalls
       \/ \E t \in Tokens \cup {"", NilToken} :
            IF t = NilToken
            THEN /\ Return(Failure("panic: nil pointer dereference"))
                 /\ UNCHANGED apiCalls
            ELSE /\ sessionToken' = t
                 /\ apiCalls' = apiCalls + 1
                 /\ Pending("signup_session")
                 /\ UNCHANGED <<flow, subs, repls>>

\* signup: the answer of ToSession; Authenticate persists the context.
SignupSession ==
    /\ pc = "signup_session"
    /\ UNCHANGED <<fnVars, noConfirm, cmd, hadSession, frame, held, prompts, answers,
                   rendered, initReqs, inits, stepUps, apiCalls>>
    /\ \/ \E e \in ToSessionErrors(sessionToken) :
            /\ exchangeErr' = e
            /\ Return(AfterAuthenticate(frame, Failure("to session")))
            /\ UNCHANGED <<fileVars, writes, lastWrite, fileChanged, exchanged>>
       \/ \E s \in Sessions :
            /\ ToSessionResolves(sessionToken)
            /\ exchangeErr' = "none"
            /\ exchanged' = exchanged \cup {sessionToken}
            /\ AuthenticateFinish(sessionToContext(s, sessionToken))

\* signin: the login flow arrives, or its initiation fails.
SigninInit ==
    /\ pc = "signin_init"
    /\ UNCHANGED <<fnVars, fileVars, noConfirm, cmd, hadSession, frame, held, prompts, answers,
                   writes, lastWrite, fileChanged, exchangeErr,
                   exchanged, rendered, initReqs, inits, stepUps, apiCalls>>
    /\ \/ Return(AfterAuthenticate(frame, Failure("initialize login flow")))
       \/ \E f \in Flows :
            /\ flow' = f
            /\ Pending("signin_form")
            /\ UNCHANGED <<sessionToken, subs, repls>>

\* signin: retryLogin; negotiate the method, render its form, submit.
SigninForm ==
    /\ pc = "signin_form"
    /\ UNCHANGED <<fnVars, fileVars, noConfirm, cmd, hadSession, frame, held, prompts, answers,
                   writes, lastWrite, fileChanged, exchangeErr,
                   exchanged, initReqs, inits, stepUps>>
    /\ LET n == Negotiate(sessionToken, flow.groups) IN
       IF n.err # ""
       THEN /\ Return(AfterAuthenticate(frame, Failure(n.err)))
            /\ UNCHANGED <<rendered, apiCalls>>
       ELSE \E renderOK \in BOOLEAN :
            IF ~renderOK
            THEN /\ Return(AfterAuthenticate(frame, Failure("renderForm")))
                 /\ UNCHANGED <<rendered, apiCalls>>
            ELSE /\ rendered' = rendered + 1
                 /\ subs' = Append(subs, Submission(flow, n.method, Body(n.form), sessionToken))
                 /\ apiCalls' = apiCalls + 1
                 /\ Pending("signin_submit")
                 /\ UNCHANGED <<sessionToken, flow, repls>>

\* signin: the answer to the submission; on success ToSession is called
\* with the new token, or with the prior one when the answer has none.
SigninSubmit ==
    /\ pc = "signin_submit"
    /\ UNCHANGED <<fnVars, fileVars, noConfirm, cmd, hadSession, frame, held, prompts, answers,
                   writes, lastWrite, fileChanged, exchangeErr,
                   exchanged, rendered, initReqs, inits, stepUps>>
    /\ \/ \E m \in Flows :
            /\ Len(repls) < MaxRetries
            /\ flow' = AdoptFlow(flow, m)
            /\ repls' = Append(repls, m.id)
            /\ Pending("signin_form")
            /\ UNCHANGED <<sessionToken, subs, apiCalls>>
       \/ /\ Return(AfterAuthenticate(frame, Failure("submit login flow")))
          /\ UNCHANGED apiCalls
       \/ \E t \in Tokens \cup {"", NilToken} :
            IF t = NilToken
            THEN /\ Return(Failure("panic: nil pointer dereference"))
                 /\ UNCHANGED apiCalls
            ELSE /\ sessionToken' = Coalesce(t, sessionToken)
                 /\ apiCalls' = apiCalls + 1
                 /\ Pending("signin_session")
                 /\ UNCHANGED <<flow, subs, repls>>

\* signin: the answer of ToSession: resolve and persist, step up, or fail.
SigninSession ==
    /\ pc = "signin_session"
    /\ UNCHANGED <<fnVars, noConfirm, cmd, hadSession, frame, held, prompts, answers, rendered>>
    /\ \/ \E s \in Sessions :
            /\ ToSessionResolves(sessionToken)
            /\ exchangeErr' = "none"
            /\ exchanged' = exchanged \cup {sessionToken}
            /\ AuthenticateFinish(sessionToContext(s, sessionToken))
            /\ UNCHANGED <<initReqs, inits, stepUps, apiCalls>>
       \/ \E e \in ToSessionErrors(sessionToken) :
            /\ exchangeErr' = e
            /\ UNCHANGED <<fileVars, writes, lastWrite, fileChanged, exchanged>>
            /\ IF IsStepUp(e)
               THEN /\ stepUps < MaxStepUps
                    /\ stepUps' = stepUps + 1
                    /\ SigninEnter(sessionToken)
                    /\ UNCHANGED flow
               ELSE /\ Return(AfterAuthenticate(frame, Failure("to session")))
                    /\ UNCHANGED <<initReqs, inits, stepUps, apiCalls>>

Next ==
    \/ EnsureContext
    \/ EnsureConfirm
    \/ Authenticate
    \/ AuthConfirm
    \/ SignOutCmd
    \/ AuthAsk
    \/ SignupInit
    \/ SignupForm
    \/ SignupSubmit
    \/ SignupSession
    \/ SigninInit
    \/ SigninForm
    \/ SigninSubmit
    \/ SigninSession

Spec == Init /\ [][Next]_vars

\* A step of a command that is under way: the user answers the prompt, or
\* the identity API answers the request, the command is waiting for.
RunStep ==
    \/ EnsureConfirm
    \/ AuthConfirm
    \/ AuthAsk
    \/ SignupInit
    \/ SignupForm
    \/ SignupSubmit
    \/ SignupSession
    \/ SigninInit
    \/ SigninForm
    \/ SigninSubmit
    \/ SigninSession

\* Every prompt and every request is eventually answered.  The identity API
\* answers with a replacement flow at most MaxRetries times per flow and
\* with session_aal2_required at most MaxStepUps times per run.
LiveSpec == Init /\ [][Next]_vars /\ WF_vars(RunStep)

\* ------------------------------------------- functions applied on their own

\* The variables of a running command.
handlerVars ==
    <<noConfirm, cmd, frame, pc, ret, held, hadSession, prompts, answers,
      apiCalls, writes, exchanged, lastWrite, fileChanged, flowVars>>

\* Contexts a caller may hand to WriteConfig.
FnVersions == {"", version, "v1"}
FnStrings == {"", InvalidUTF8}
FnUUIDs == {NilUUID, "6ba7b810-9dad-11d1-80b4-00c04fd430c8"}
FnContexts ==
    {AuthContext(v, t, p, id, email) :
        v \in FnVersions, t \in FnStrings \cup {"tok1"}, p \in FnUUIDs,
        id \in FnUUIDs, email \in FnStrings \cup {"a@example.com"}}
\* No context: readConfig was not preceded by a successful WriteConfig.
NoContext == [none |-> TRUE]

\* Values of the --cloud-config flag, of ORY_CLOUD_CONFIG_PATH and of $HOME.
FnFlags == {"", "/flag/ory.json"}
FnEnvs == {"", "/env/ory.json"}
FnHomes == {"", "/home/u"}

\* Config files readConfig may find: those of a run, and one that is not JSON.
InitFn ==
    /\ \E f \in InitFiles \cup {<<"corrupt", NoData>>} :
        /\ fileState = f[1]
        /\ fileData = f[2]
    /\ InitHandler
    /\ input = NoInput
    /\ output = NoOutput

\* WriteConfig(c)
FnWriteConfig ==
    \E c \in FnContexts, w \in WriteOutcomes :
        LET wr == WriteConfig(c, w, fileState, fileData) IN
        /\ input' = [kind |-> "WriteConfig", c |-> c, w |-> w]
        /\ output' = [kind |-> "WriteConfig", err |-> wr.err]
        /\ fileState' = wr.fs
        /\ fileData' = wr.fd
        /\ UNCHANGED handlerVars

\* readConfig(); written is the context handed to WriteConfig when this call
\* directly follows a WriteConfig that returned no error.
FnReadConfig ==
    \E r \in ReadOutcomes :
        LET rc == readConfig(r, fileState, fileData) IN
        /\ input' = [kind |-> "readConfig", r |-> r, fs |-> fileState,
                      written |-> IF input.kind = "WriteConfig" /\ output.err = ""
                                  THEN input.c ELSE NoContext]
        /\ output' = [kind |-> "readConfig", c |-> rc.c, nil |-> rc.nil, err |-> rc.err]
        /\ UNCHANGED <<fileVars, handlerVars>>

\* getConfigPath(cmd)
FnGetConfigPath ==
    \E flag \in FnFlags, env \in FnEnvs, home \in FnHomes :
        LET gp == getConfigPath(flag, env, home) IN
        /\ input' = [kind |-> "getConfigPath", flag |-> flag, env |-> env, home |-> home]
        /\ output' = [kind |-> "getConfigPath", path |-> gp.path, err |-> gp.err]
        /\ UNCHANGED <<fileVars, handlerVars>>

NextFn ==
    \/ FnWriteConfig
    \/ FnReadConfig
    \/ FnGetConfigPath

SpecFn == InitFn /\ [][NextFn]_vars

\* ----------------------------------------------------------------- claims

SignupPcs == {"signup_init", "signup_form", "signup_submit", "signup_session"}
SigninPcs == {"signin_init", "signin_form", "signin_submit", "signin_session"}
Range(q) == {q[i] : i \in 1..Len(q)}
Last(q) == q[Len(q)]
WriteErrors == {"unable to open file for writing", "unable to write configuration"}
SecondFactors == {"totp", "lookup_secret"}
\* Everything but the version is empty: the context of a signed-out user.
SignedOut(c) ==
    /\ c.SessionToken = ""
    /\ c.SelectedProject = NilUUID
    /\ c.IdentityTraits = [ID |-> NilUUID, Email |-> ""]

\* C1: validation-failure retry, in signup and in signin: every replacement
\* flow is answered by exactly one more submission, submission k+1 carries
\* the identifier of the k-th replacement flow, so a submit that succeeds
\* after N replacement flows is submission N+1; and each signup / signin
\* call has initiated its flow once.
C1_RetryUsesReplacementFlow ==
    /\ pc \in {"signup_form", "signin_form"} => Len(subs) = Len(repls)
    /\ pc \in {"signup_submit", "signin_submit", "signup_session", "signin_session"}
          => Len(subs) = Len(repls) + 1
    /\ \A k \in 1..Len(repls) : k + 1 <= Len(subs) => subs[k + 1].flow = repls[k]
    /\ pc \in SignupPcs \cup SigninPcs => inits = stepUps + 1

\* A login submit succeeded after two replacement flows with fresh identifiers.
C1_Witness ==
    /\ pc = "signin_session"
    /\ Len(repls) = 2
    /\ repls[1] # subs[1].flow
    /\ repls[2] # repls[1]
    /\ Len(subs) = 3

\* C2: step-up escalation.  A failed session exchange whose error.id is
\* session_aal2_required re-enters signin with the token of that exchange,
\* and the new flow is requested with that token and aal2; any other error
\* id ends the run with a failure and no re-entry; a successful exchange
\* ends the login with that token's context (Authenticate can then only
\* fail on writing the config), after exactly as many escalations as
\* session_aal2_required answers: one when the second exchange succeeds.
C2_StepUpEscalation ==
    /\ [](pc \in SigninPcs /\ stepUps > 0 =>
            /\ Len(initReqs) = stepUps + 1
            /\ Last(initReqs).aal = "aal2"
            /\ Last(initReqs).token # "")
    /\ [][pc = "signin_session" =>
            \/ /\ exchangeErr' = "session_aal2_required"
               /\ pc' = "signin_init"
               /\ stepUps' = stepUps + 1
               /\ sessionToken' = sessionToken
               /\ initReqs' = Append(initReqs, [token |-> sessionToken, aal |-> "aal2"])
            \/ /\ exchangeErr' \notin {"none", "session_aal2_required"}
               /\ pc' = "done"
               /\ ret'.err = "to session"
               /\ stepUps' = stepUps
               /\ initReqs' = initReqs
            \/ /\ exchangeErr' = "none"
               /\ pc' = "done"
               /\ stepUps' = stepUps
               /\ initReqs' = initReqs
               /\ ret'.err \in {""} \cup WriteErrors
               /\ ret'.err = "" => /\ ~ret'.nil
                                   /\ ret'.ctx.SessionToken = sessionToken]_vars

\* A login that stepped up once and succeeded on the second exchange.
C2_Witness ==
    /\ pc = "done"
    /\ ret.err = ""
    /\ ~ret.nil
    /\ stepUps = 1
    /\ Len(initReqs) = 2
    /\ initReqs[1].aal = ""
    /\ initReqs[2] = [token |-> ret.ctx.SessionToken, aal |-> "aal2"]

\* C3: login method negotiation, for every set of node groups: without a
\* prior token the submitted method is password; with a prior token it is
\* totp when a totp group is present, lookup_secret when only lookup_secret
\* is; with neither, signin fails with the unsupported-second-factor error
\* and neither renders a form nor issues a request.
C3_MethodNegotiation ==
    /\ [](pc = "signin_submit" =>
            LET m == Last(subs).method
                g == flow.groups
            IN  /\ sessionToken = "" => m = "password"
                /\ sessionToken # "" /\ "totp" \in g => m = "totp"
                /\ sessionToken # "" /\ "totp" \notin g => /\ "lookup_secret" \in g
                                                            /\ m = "lookup_secret")
    /\ [][pc = "signin_form" /\ sessionToken # "" /\ flow.groups \cap SecondFactors = {} =>
            /\ pc' = "done"
            /\ ret'.err = "only TOTP and lookup secrets are supported"
            /\ rendered' = rendered
            /\ apiCalls' = apiCalls]_vars

\* A step-up flow offering both second factors was submitted with totp.
C3_Witness ==
    /\ pc = "signin_submit"
    /\ sessionToken # ""
    /\ SecondFactors \subseteq flow.groups
    /\ Last(subs).method = "totp"

\* C4 (as claimed): every submission populates exactly the variant of the
\* negotiated method.
C4_VariantMatchesMethod ==
    \A i \in 1..Len(subs) : subs[i].body = {subs[i].method}

\* The case of C5: EnsureContext found a session, asked, and the user declined.
C5_Case ==
    /\ cmd = "EnsureContext"
    /\ hadSession
    /\ ~noConfirm
    /\ answers # <<>>
    /\ ~answers[1]

\* C5: after the user declined the stored identity, SignOut's write came
\* first; once it succeeded the config holds the signed-out context for as
\* long as the authentication runs, the only further question was the
\* account question (never the already-signed-in one), and a successful
\* return hands back the context that was resolved and written.
C5_DeclineSignsOutThenAuthenticates ==
    C5_Case =>
        /\ writes >= 1
        /\ "another_account" \notin Range(prompts)
        /\ pc # "done" =>
              /\ fileState = "present"
              /\ SignedOut(Decode(fileData))
              /\ writes = 1
              /\ prompts = <<"continue_as", "have_account">>
        /\ pc = "done" /\ ret.err = "" =>
              /\ ~ret.nil
              /\ prompts = <<"continue_as", "have_account">>
              /\ writes = 2
              /\ fileState = "present"
              /\ Decode(fileData) = ret.ctx
              /\ ret.ctx.SessionToken \in exchanged

\* The user declined "tok1" and the run returned a context for "tok2".
C5_Witness ==
    /\ C5_Case
    /\ pc = "done"
    /\ ret.err = ""
    /\ ret.ctx.SessionToken = "tok2"

\* C6: EnsureContext on a readable config with a session, when the user
\* confirms or --yes is set: it returns the stored context, without any
\* identity-API request and without any WriteConfig call.
C6_ConfirmReturnsStored ==
    /\ pc = "done"
    /\ cmd = "EnsureContext"
    /\ hadSession
    /\ ret.err # "unable to open ory config file"
    /\ noConfirm \/ (answers # <<>> /\ answers[1])
    => /\ ret = Result(Decode(fileData))
       /\ fileState = "present"
       /\ ret.ctx.SessionToken # ""
       /\ apiCalls = 0
       /\ writes = 0

\* The user confirmed the stored identity and EnsureContext returned.
C6_Witness ==
    /\ pc = "done"
    /\ cmd = "EnsureContext"
    /\ hadSession
    /\ answers = <<TRUE>>
    /\ ret.err = ""

\* C7 (as claimed): with prompts allowed and no session, EnsureContext and
\* Authenticate do not return without failure unless they asked the account
\* question and initiated a login or registration flow.
C7_NoSessionAuthenticates ==
    /\ pc = "done"
    /\ cmd \in {"EnsureContext", "Authenticate"}
    /\ ~noConfirm
    /\ ~hadSession
    /\ ret.err = ""
    => /\ "have_account" \in Range(prompts)
       /\ inits >= 1

\* C8 (as claimed): with --yes and no session, EnsureContext and
\* Authenticate return a failure, having asked nothing, requested nothing
\* and written nothing.
C8_YesWithoutSessionFails ==
    /\ pc = "done"
    /\ cmd \in {"EnsureContext", "Authenticate"}
    /\ noConfirm
    /\ ~hadSession
    => /\ ret.err # ""
       /\ prompts = <<>>
       /\ apiCalls = 0
       /\ writes = 0

\* C9 (as claimed): after a successful SignOut the persisted context is the
\* zero value, version included.
C9_SignOutPersistsZero ==
    pc = "done" /\ cmd = "SignOut" /\ ret.err = "" =>
        /\ fileState = "present"
        /\ Decode(fileData) = ZeroContext

\* C9 (amended): after a successful SignOut the persisted context has an
\* empty session token, the nil project and empty identity traits, and its
\* version is "v0alpha0".
C9_SignOutPersistsStampedZero ==
    pc = "done" /\ cmd = "SignOut" /\ ret.err = "" =>
        /\ fileState = "present"
        /\ SignedOut(Decode(fileData))
        /\ Decode(fileData).Version = "v0alpha0"

\* SignOut succeeded on a config that held a session.
C9_Witness ==
    /\ pc = "done"
    /\ cmd = "SignOut"
    /\ ret.err = ""
    /\ hadSession

\* C10 (as claimed): SignOut returns no error in every state, and makes no
\* identity-API request.
C10_SignOutAlwaysSucceeds ==
    pc = "done" /\ cmd = "SignOut" => ret.err = "" /\ apiCalls = 0

\* C10 (amended): SignOut makes no identity-API request and returns no
\* error when the config file is opened and written; when the file cannot
\* be opened or written it returns that error.
C10_SignOutFailsOnlyOnWrite ==
    pc = "done" /\ cmd = "SignOut" =>
        /\ apiCalls = 0
        /\ writes = 1
        /\ lastWrite = "ok" => ret.err = ""
        /\ lastWrite = "open_fails" => ret.err = "unable to open file for writing"
        /\ lastWrite = "encode_fails" => ret.err = "unable to write configuration"

\* SignOut ran while the config file could not be opened.
C10_Witness ==
    /\ pc = "done"
    /\ cmd = "SignOut"
    /\ lastWrite = "open_fails"
    /\ ret.err # ""

\* The case of C11: signin or signup resolved a session in this run.
C11_Case ==
    /\ pc = "done"
    /\ cmd \in {"Authenticate", "EnsureContext"}
    /\ exchanged # {}

\* C11: when a login or registration produced a context, Authenticate wrote
\* it before returning: a returned context is the one the config now holds,
\* and when that write failed the run returns the write's error and no
\* context.
C11_PersistBeforeReturn ==
    C11_Case =>
        /\ writes >= 1
        /\ lastWrite # "none"
        /\ lastWrite = "ok" =>
              /\ ret.err = ""
              /\ ~ret.nil
              /\ fileState = "present"
              /\ Decode(fileData) = ret.ctx
              /\ ret.ctx.SessionToken \in exchanged
        /\ lastWrite # "ok" =>
              /\ ret.err \in WriteErrors
              /\ ret.nil

\* Authenticate returned the context of a fresh login or registration.
C11_Witness ==
    /\ C11_Case
    /\ cmd = "Authenticate"
    /\ lastWrite = "ok"
    /\ ret.err = ""
    /\ ret.ctx.SessionToken = "tok2"

\* C12 (as claimed): every persisted context with a session token has an
\* email, whatever traits the identity service returned.
C12_TokenImpliesEmail ==
    fileState = "present" =>
        (Decode(fileData).SessionToken # "" => Decode(fileData).IdentityTraits.Email # "")


\* The user has declined the identity the config file held when the run
\* began: "no" to EnsureContext's "continue as that user?", or "yes" to
\* Authenticate's "authenticate with another account?".
C13_Declined ==
    /\ hadSession
    /\ answers # <<>>
    /\ \/ cmd = "EnsureContext" /\ ~answers[1]
       \/ cmd = "Authenticate" /\ answers[1]

\* C13 as stated: while a run is suspended at a prompt or an API request,
\* where the user can abort it, the config file is as it was when the run
\* began and nothing has been written.
C13_NoWriteBeforeResolved ==
    pc \notin {"idle", "done"} => /\ ~fileChanged
                                  /\ writes = 0

\* C13 amended: a run suspended at a prompt or an API request has written
\* nothing and left the config file as at its start, unless the user has
\* declined the stored identity: then SignOut has written once and the file
\* holds the signed-out context.
C13_AbortLeavesConfigOrSignedOut ==
    pc \notin {"idle", "done"} =>
        IF C13_Declined
        THEN /\ writes = 1
             /\ lastWrite = "ok"
             /\ fileChanged
             /\ fileState = "present"
             /\ SignedOut(Decode(fileData))
        ELSE /\ writes = 0
             /\ ~fileChanged

\* The user declined in EnsureContext and the run waits at "do you already
\* have an account?" with the config file already signed out.
C13_Witness ==
    /\ pc = "auth_ask"
    /\ cmd = "EnsureContext"
    /\ C13_Declined
    /\ fileChanged
    /\ SignedOut(Decode(fileData))

\* Every string field of c is valid UTF-8.
ValidUTF8(c) ==
    /\ c.Version # InvalidUTF8
    /\ c.SessionToken # InvalidUTF8
    /\ c.IdentityTraits.Email # InvalidUTF8

\* readConfig has just returned without error after a WriteConfig that
\* returned without error.
C14_Case ==
    /\ input.kind = "readConfig"
    /\ input.written # NoContext
    /\ output.err = ""

\* C14 as stated: WriteConfig(c) followed by readConfig returns a value
\* equal to c as it was passed in, whatever its version string and fields.
C14_RoundTripIdentity ==
    C14_Case => output.c = input.written

\* C14 amended: for every c whose string fields are valid UTF-8,
\* WriteConfig(c) followed by readConfig returns c with its version replaced
\* by "v0alpha0": token, project, identity id and email come back as passed
\* in, and the whole value is equal to c exactly when c.version was
\* "v0alpha0" already.
C14_RoundTripUpToVersion ==
    (C14_Case /\ ValidUTF8(input.written)) =>
        /\ ~output.nil
        /\ output.c.Version = "v0alpha0"
        /\ output.c.SessionToken = input.written.SessionToken
        /\ output.c.SelectedProject = input.written.SelectedProject
        /\ output.c.IdentityTraits = input.written.IdentityTraits
        /\ (output.c = input.written) <=> (input.written.Version = "v0alpha0")

\* A signed-in context with another version string came back stamped.
C14_Witness ==
    /\ C14_Case
    /\ input.written = AuthContext("v1", "tok1", NilUUID,
                           "6ba7b810-9dad-11d1-80b4-00c04fd430c8", "a@example.com")
    /\ output.c = AuthContext("v0alpha0", "tok1", NilUUID,
                      "6ba7b810-9dad-11d1-80b4-00c04fd430c8", "a@example.com")

\* C15: readConfig on a path where no file exists returns ErrNoConfig (with
\* an empty context, not a nil one); when the file exists and cannot be
\* opened, or is not JSON, it returns an error other than ErrNoConfig.
C15_NoConfigSentinel ==
    input.kind = "readConfig" =>
        /\ input.fs = "absent" =>
               /\ output.err = "ErrNoConfig"
               /\ ~output.nil
               /\ output.c = ZeroContext
        /\ (input.fs # "absent" /\ (input.r = "open_fails" \/ input.fs = "corrupt")) =>
               /\ output.err \notin {"", "ErrNoConfig"}
               /\ output.nil
        /\ (input.fs = "present" /\ input.r = "ok") => output.err = ""

\* readConfig has answered for an absent file.
C15_Witness ==
    /\ input.kind = "readConfig"
    /\ input.fs = "absent"
    /\ output.err = "ErrNoConfig"

\* C17: when the home directory is known, getConfigPath returns the
\* --cloud-config override if it is set, else ORY_CLOUD_CONFIG_PATH if it is
\* set, else the default file under the home directory.
C17_OverrideThenEnvThenDefault ==
    (input.kind = "getConfigPath" /\ input.home # "") =>
        /\ output.err = ""
        /\ output.path = (IF input.flag # "" THEN input.flag
                          ELSE IF input.env # "" THEN input.env
                          ELSE input.home \o "/.ory-cloud.json")

\* C16: no run of Authenticate returns the session exchange's failure when
\* that failure was session_aal2_required: a step-up is never handed to the
\* caller as an error, after a login or after a registration.
C16_RecoverableNeverSurfaces ==
    pc = "done" => ~(/\ ret.err = "to session"
                     /\ exchangeErr = "session_aal2_required")

\* C18 as stated: within one call of signin every retry submits with the
\* method of the first submission.
C18_RetryKeepsMethod ==
    \A i \in 1..Len(subs) : subs[i].method = subs[1].method

\* C18 amended: a retry after a replacement flow negotiates the method
\* again, from the replacement flow's groups: its submission carries the
\* replacement flow and the method that flow's groups select (so the method
\* can differ from the first submission's), and with a prior token and a
\* replacement flow offering neither totp nor lookup_secret the retry ends in
\* the unsupported-second-factor failure without rendering or submitting.
C18_RetryNegotiatesAgain ==
    /\ [](pc = "signin_submit" /\ Len(repls) >= 1 =>
            /\ flow.id = Last(repls)
            /\ Last(subs).flow = Last(repls)
            /\ Last(subs).method =
                   (IF sessionToken = "" THEN "password"
                    ELSE IF "totp" \in flow.groups THEN "totp" ELSE "lookup_secret")
            /\ sessionToken # "" => flow.groups \cap SecondFactors # {})
    /\ [][(/\ pc = "signin_form"
           /\ Len(repls) >= 1
           /\ sessionToken # ""
           /\ flow.groups \cap SecondFactors = {}) =>
            /\ pc' = "done"
            /\ ret'.err = "only TOTP and lookup secrets are supported"
            /\ rendered' = rendered
            /\ apiCalls' = apiCalls]_vars

\* A step-up submitted totp first and, on the replacement flow, lookup_secret.
C18_Witness ==
    /\ pc = "signin_submit"
    /\ Len(subs) = 2
    /\ subs[1].method = "totp"
    /\ subs[2].method = "lookup_secret"
    /\ subs[2].flow = repls[1]

\* C19: once a run has written the config file, the session token the file
\* holds is empty or a token that ToSession resolved in that run.  So a
\* token whose exchange answered session_aal2_required, or one the run held
\* when a submission or an exchange failed, is not persisted.
C19_PersistedTokenWasExchanged ==
    /\ (fileState = "present" /\ (fileChanged \/ lastWrite = "ok")) =>
            Decode(fileData).SessionToken \in exchanged \cup {""}
    /\ (pc = "done" /\ ret.err \in {"to session", "submit login flow",
                                     "initialize login flow"}) =>
            /\ exchanged = {}
            /\ fileState = "present" /\ fileChanged => SignedOut(Decode(fileData))

\* The first exchange, for tok1, asked for a step-up; the step-up's token
\* tok2 was resolved and is the one persisted.
C19_Witness ==
    /\ pc = "done"
    /\ stepUps = 1
    /\ lastWrite = "ok"
    /\ exchanged = {"tok2"}
    /\ fileState = "present"
    /\ Decode(fileData).SessionToken = "tok2"

\* C20: termination.  The code has no ceiling of its own: a replacement
\* flow is always answered by another form and a session_aal2_required by
\* another signin, as often as the identity API sends them.  When the API
\* sends each only finitely often and every prompt and request is answered,
\* every run that is under way eventually returns.
C20_Terminates ==
    /\ [][Len(repls') > Len(repls) => pc' \in {"signup_form", "signin_form"}]_vars
    /\ [][stepUps' > stepUps => pc' = "signin_init" /\ inits' = inits + 1]_vars
    /\ (pc \notin {"idle", "done"}) ~> (pc = "done")

\* The identity API has sent every replacement flow and every step-up it
\* can send, and the run has returned a context.
C20_Witness ==
    /\ pc = "done"
    /\ cmd = "Authenticate"
    /\ stepUps = MaxStepUps
    /\ inits = MaxStepUps + 1
    /\ rendered >= MaxRetries + 2
    /\ ret.err = ""
    /\ ~ret.nil

====
